---- MODULE Spec2Model ----
(***************************************************************************)
(* Benin least-cost electrification: the demand estimator                  *)
(* (benin_least_cost/demand.py) followed by the cost and selection engine  *)
(* (benin_least_cost/lcoe.py), as run by scripts/run_benin_pipeline.py on  *)
(* one settlement row of the table.                                        *)
(*                                                                         *)
(* Numbers are fixed point, exact where the code is exact:                 *)
(*   energy        1/20 kWh   (so that the 0.85 and 0.95 uptakes are exact) *)
(*   money         USD                                                     *)
(*   LCOE          1/1000 USD per kWh (999.9 is 999900)                    *)
(*   power         W                                                       *)
(*   distance      m for the grid distance, km for the input columns       *)
(*   rates         1/1000000 (crf, growth, discount factors)               *)
(*   mean_rwi      1/10, latitude 1/10 degree                              *)
(* A missing value of a column is NaN; a division by zero gives Inf (or    *)
(* NaN for 0/0) as numpy does.                                             *)
(***************************************************************************)
EXTENDS Integers, Sequences, FiniteSets, TLC

(***************************************************************************)
(* Bounds of the model                                                     *)
(***************************************************************************)
MaxFacilities == 1

(***************************************************************************)
(* config.py                                                               *)
(***************************************************************************)
PLANNING_HORIZON == 15
POP_GROWTH == 27
WEALTH_GROWTH == 15
DISCOUNT_RATE == 80000
TIER_KWH == [t \in 1..5 |-> CASE t = 1 -> 35 [] t = 2 -> 220 [] t = 3 -> 850
                              [] t = 4 -> 2200 [] t = 5 -> 3500]
TIER_LF == [t \in 1..5 |-> CASE t = 1 -> 18 [] t = 2 -> 20 [] t = 3 -> 25
                             [] t = 4 -> 30 [] t = 5 -> 35]
LOADS == [health |-> 4000, education |-> 1500, sme |-> 600, freezer |-> 2500,
          irrigation |-> 3500, mill |-> 4500, dryer |-> 6000]
TARGET_UPTAKE_2040 == 85
MV_COST_KM == 14000
LV_COST_KM == 5500
SUBSTATION_COST == 500000
TRANSFORMER_COST == 8000
CONN_GRID == 150
GRID_LOSS == 18
GRID_PRICE == 10
PV_COST == 700
BATT_COST == 300
INV_COST == 180
CONN_MG == 100
CF_SOLAR == 18
SHS_COST == [t \in 1..3 |-> CASE t = 1 -> 80 [] t = 2 -> 250 [] t = 3 -> 600]
SHS_CAP == [t \in 1..3 |-> CASE t = 1 -> 35 [] t = 2 -> 150 [] t = 3 -> 350]
MAX_TIER_SHS == 3

(***************************************************************************)
(* Values of a cell                                                        *)
(***************************************************************************)
NaN == 0 - 1000000
NonNumeric == 0 - 2000000
Inf == 2147483647
Absent == 0 - 3000000
Micro == 1000000
EnergyScale == 20

IsNum(x) == x # NaN /\ x # NonNumeric /\ x # Absent

(***************************************************************************)
(* Fixed-point helpers: exact floors that stay within 32 bits              *)
(***************************************************************************)
Max(a, b) == IF a >= b THEN a ELSE b
Min(a, b) == IF a <= b THEN a ELSE b
CeilDiv(a, b) == (a + b - 1) \div b

\* floor(a * b / 10^6), a < 2*10^9, b < 10^8
MulMicro(a, b) ==
    LET a1 == a \div 1000
        a0 == a % 1000
        b1 == b \div 1000
        b0 == b % 1000
    IN  a1 * b1 + ((a1 * b0 + a0 * b1) + ((a0 * b0) \div 1000)) \div 1000

\* floor(a * b / c) for c * b < 2^31
MulDiv(a, b, c) == (a \div c) * b + ((a % c) * b) \div c

RECURSIVE LongDivQR(_, _, _)
LongDivQR(a, d, k) ==
    IF k = 0 THEN <<a \div d, a % d>>
    ELSE LET p == LongDivQR(a, d, k - 1)
         IN  <<p[1] * 10 + (p[2] * 10) \div d, (p[2] * 10) % d>>

\* a / b scaled by 10^k, with numpy's results for NaN operands and b = 0
FDiv(a, b, k) ==
    IF a = NaN \/ b = NaN THEN NaN
    ELSE IF b = 0 THEN (IF a = 0 THEN NaN ELSE Inf)
    ELSE LongDivQR(a, b, k)[1]

RECURSIVE PowMicro(_, _)
PowMicro(b, n) == IF n = 0 THEN Micro ELSE MulMicro(PowMicro(b, n - 1), b)

(***************************************************************************)
(* lcoe.py: crf                                                            *)
(***************************************************************************)
crf(r, n) ==
    IF r = 0 THEN Micro \div n
    ELSE LET p == PowMicro(Micro + r, n)
         IN  LongDivQR(MulMicro(r, p), p - Micro, 6)[1]

crf40 == crf(DISCOUNT_RATE, 40)
crf20 == crf(DISCOUNT_RATE, 20)
crf5 == crf(DISCOUNT_RATE, 5)

(***************************************************************************)
(* The table.  gdf maps the names of the columns that are present to the   *)
(* row's values: the input columns that several sections read are there    *)
(* from the start, the derived columns appear as the code writes them.     *)
(* opt holds the optional input columns read by the section being run      *)
(* (each is read by one section only); capex holds the capital costs that  *)
(* run_lcoe_model keeps in local variables; err is the exception raised.   *)
(***************************************************************************)
VARIABLES pc, gdf, opt, capex, err

vars == <<pc, gdf, opt, capex, err>>

NoColumns == [c \in {} |-> 0]
Col(c, v) == IF v = Absent THEN NoColumns ELSE (c :> v)
Put(f, c, v) == (c :> v) @@ f
Has(f, c) == c \in DOMAIN f
Get(f, c, default) == IF c \in DOMAIN f THEN f[c] ELSE default
fillna(v, default) == IF v = NaN THEN default ELSE v

\* a comparison with a missing value is False
Gt(a, b) == a # NaN /\ b # NaN /\ a > b
Lt(a, b) == a # NaN /\ b # NaN /\ a < b

InputColumns == {"population", "num_buildings", "dist_lake_river_km", "geometry"}
DemandColumns == {"is_urban", "hh_size", "households", "tier", "kwh_hh", "lf",
                  "dem_comm", "dem_res", "dem_agri", "dem_pub",
                  "projected_demand", "projected_peak"}
CostColumns == {"lcoe_grid", "lcoe_mg", "lcoe_shs", "min_lcoe", "optimal_tech",
                "investment"}
DerivedColumns == DemandColumns \cup CostColumns

(***************************************************************************)
(* Input values                                                            *)
(***************************************************************************)
PopulationValues == {Absent, NonNumeric, NaN, 0, 250, 350, 450, 500, 1000, 5000, 5200}
BuildingValues == {Absent, NaN, 0, 1, 600}
LakeValues == {Absent, 1, 3}
LatitudeValues == {NaN, 70, 80, 90}
RwiValues == {Absent, NaN, 0 - 5, 0 - 3, 4}
NightlightValues == {Absent, NaN, 0, 1}
RoadValues == {Absent, 20, 25}
HubValues == {Absent, NaN, 0}
FacilityValues == {Absent, NaN} \cup (0..MaxFacilities)
SubstationValues == {Absent, NaN, 5, 60}
LineValues == {Absent, NaN, 10}
AccessValues == {Absent, 0, 1}

Init ==
    /\ pc = "classify"
    /\ \E p \in PopulationValues, nb \in BuildingValues, lake \in LakeValues,
          lat \in LatitudeValues :
          gdf = Col("population", p) @@ Col("num_buildings", nb)
                @@ Col("dist_lake_river_km", lake) @@ Col("geometry", lat)
    /\ opt = NoColumns
    /\ capex = NoColumns
    /\ err = ""

Raise(e) == pc' = "raised" /\ err' = e

(***************************************************************************)
(* demand.py: run_demand_model, 1. Demographics and classification         *)
(***************************************************************************)
IsUrban(f) == Gt(f["population"], 5000) \/ Gt(Get(f, "num_buildings", 0), 500)

HhSize(urban) == IF urban THEN 43 ELSE 52

\* np.ceil(population / hh_size).clip(lower=1).astype(int)
Households(population, hh_size) == Max(1, CeilDiv(population * 10, hh_size))

Classify ==
    /\ pc = "classify"
    /\ UNCHANGED <<opt, capex>>
    /\ IF ~Has(gdf, "population")
       THEN Raise("KeyError") /\ UNCHANGED gdf
       ELSE IF gdf["population"] = NonNumeric
       THEN Raise("TypeError") /\ UNCHANGED gdf
       ELSE LET urban == IsUrban(gdf)
                g1 == Put(Put(gdf, "is_urban", urban), "hh_size", HhSize(urban))
            IN  IF gdf["population"] = NaN
                THEN Raise("IntCastingNaNError") /\ gdf' = g1
                ELSE /\ gdf' = Put(g1, "households",
                                   Households(gdf["population"], HhSize(urban)))
                     /\ pc' = "tier"
                     /\ UNCHANGED err

(***************************************************************************)
(* 2. Tier assignment                                                      *)
(***************************************************************************)
\* np.select([rwi < -0.3, rwi < 0.4], [1, 2], default=3)
TierFromRwi(rwi) == IF Lt(rwi, 0 - 3) THEN 1 ELSE IF Lt(rwi, 4) THEN 2 ELSE 3

\* the correction without its (tier < 2) test
NightlightTier_AnyTier(tier, o) ==
    IF Has(o, "has_nightlight")
    THEN (IF Gt(o["has_nightlight"], 0) THEN 2 ELSE tier)
    ELSE tier

\* np.where((has_nightlight > 0) & (tier < 2), 2, tier), when the column is there
NightlightTier(tier, o) ==
    IF Has(o, "has_nightlight")
    THEN (IF Gt(o["has_nightlight"], 0) /\ tier < 2 THEN 2 ELSE tier)
    ELSE tier

\* gdf.loc[mask_remote & (tier > 3), "tier"] = 3, when the column is there
RemoteTier(tier, o) ==
    IF Has(o, "dist_main_road_km")
    THEN (IF Gt(o["dist_main_road_km"], 20) /\ tier > 3 THEN 3 ELSE tier)
    ELSE tier

TierFromWealth ==
    /\ pc = "tier"
    /\ \E rwi \in RwiValues :
          /\ opt' = Col("mean_rwi", rwi)
          /\ gdf' = Put(gdf, "tier", TierFromRwi(Get(opt', "mean_rwi", 0)))
    /\ pc' = "nightlight"
    /\ UNCHANGED <<capex, err>>

NightlightCorrection ==
    /\ pc = "nightlight"
    /\ \E nl \in NightlightValues :
          /\ opt' = opt @@ Col("has_nightlight", nl)
          /\ gdf' = Put(gdf, "tier", NightlightTier(gdf["tier"], opt'))
    /\ pc' = "remote"
    /\ UNCHANGED <<capex, err>>

RemoteCap ==
    /\ pc = "remote"
    /\ \E road \in RoadValues :
          /\ opt' = opt @@ Col("dist_main_road_km", road)
          /\ LET t == RemoteTier(gdf["tier"], opt')
             IN  gdf' = Put(Put(Put(gdf, "tier", t), "kwh_hh", TIER_KWH[t]),
                            "lf", TIER_LF[t])
    /\ pc' = "commercial"
    /\ UNCHANGED <<capex, err>>

(***************************************************************************)
(* 3. Commercial                                                           *)
(***************************************************************************)
\* np.clip(1 + (20.0 / (dist_hub + 1)), 1, 2.5) as a fraction <<num, den>>
Gravity(dist_hub) ==
    LET num == dist_hub + 21
        den == dist_hub + 1
    IN  IF 2 * num > 5 * den THEN <<5, 2>>
        ELSE IF num < den THEN <<1, 1>>
        ELSE <<num, den>>

BaseSme(urban) == IF urban THEN 50 ELSE 100

\* np.ceil((count / base_sme) * gravity) * LOADS["sme"]
SmeDemand(count, urban, gravity) ==
    IF count = NaN THEN NaN
    ELSE CeilDiv(count * gravity[1], BaseSme(urban) * gravity[2])
         * LOADS.sme * EnergyScale

\* (dist_lake_river_km < 3.0) & (population > 200), when the column is there
MaskFish(f) ==
    /\ Has(f, "dist_lake_river_km")
    /\ Lt(f["dist_lake_river_km"], 3)
    /\ Gt(f["population"], 200)

ColdChain(f) == CeilDiv(f["households"], 100) * LOADS.freezer * EnergyScale

NAdd(a, b) == IF a = NaN \/ b = NaN THEN NaN ELSE a + b

DemComm(f, o) ==
    LET dist_hub == fillna(Get(o, "dist_nearest_hub_km", 30), 30)
        sme == SmeDemand(Get(f, "num_buildings", f["households"]),
                         f["is_urban"], Gravity(dist_hub))
    IN  IF MaskFish(f) THEN NAdd(sme, ColdChain(f)) ELSE sme

Commercial ==
    /\ pc = "commercial"
    /\ \E hub \in HubValues :
          /\ opt' = Col("dist_nearest_hub_km", hub)
          /\ gdf' = Put(gdf, "dem_comm", DemComm(gdf, opt'))
    /\ pc' = "aggregate"
    /\ UNCHANGED <<capex, err>>

(***************************************************************************)
(* demand.py: estimate_agri_loads                                          *)
(***************************************************************************)
MillLoad(pop, urban) ==
    IF ~urban /\ Gt(pop, 500)
    THEN Max(1, pop \div 1500) * LOADS.mill ELSE 0

IrrigationLoad(pop, dist_lake_river_km) ==
    IF Lt(dist_lake_river_km, 3) /\ Gt(pop, 300)
    THEN Max(1, pop \div 800) * LOADS.irrigation ELSE 0

DryerLoad(pop, urban, lat) ==
    IF Gt(lat, 80) /\ ~urban /\ Gt(pop, 400)
    THEN Max(1, pop \div 2000) * LOADS.dryer ELSE 0

\* the three rules as an if / elif chain: only the first that fires adds its load
estimate_agri_loads_Elif(row) ==
    LET pop == Get(row, "population", 0)
        is_urban == Get(row, "is_urban", FALSE)
        mill == MillLoad(pop, is_urban)
        pump == IrrigationLoad(pop, Get(row, "dist_lake_river_km", 99))
    IN  ( IF mill > 0 THEN mill
          ELSE IF pump > 0 THEN pump
          ELSE DryerLoad(pop, is_urban, Get(row, "geometry", 0)) ) * EnergyScale

estimate_agri_loads(row) ==
    LET pop == Get(row, "population", 0)
        is_urban == Get(row, "is_urban", FALSE)
    IN  ( MillLoad(pop, is_urban)
        + IrrigationLoad(pop, Get(row, "dist_lake_river_km", 99))
        + DryerLoad(pop, is_urban, Get(row, "geometry", 0)) ) * EnergyScale

\* row.geometry.centroid of a row without geometry
AgriRaises(row) == Has(row, "geometry") /\ row["geometry"] = NaN

(***************************************************************************)
(* 4. Aggregation and projection to 2040                                   *)
(***************************************************************************)
Uptake(urban) == IF urban THEN 95 ELSE TARGET_UPTAKE_2040

DemRes(f) == (f["households"] * f["kwh_hh"] * Uptake(f["is_urban"]) * EnergyScale) \div 100

DemPub(o) ==
    ( fillna(o["num_health_facilities"], 0) * LOADS.health
    + fillna(o["num_education_facilities"], 0) * LOADS.education ) * EnergyScale

growth == PowMicro((1000 + POP_GROWTH) * (1000 + WEALTH_GROWTH), PLANNING_HORIZON)

TotalYr0(f) == NAdd(NAdd(NAdd(f["dem_res"], f["dem_comm"]), f["dem_agri"]), f["dem_pub"])

Projected(total) == IF total = NaN THEN NaN ELSE MulMicro(total, growth)

DesignTotal(f) ==
    Projected(NAdd(NAdd(NAdd(f["households"] * f["kwh_hh"] * EnergyScale,
                             f["dem_comm"]), f["dem_agri"]), f["dem_pub"]))

\* (design_total / 8760) / lf, in W
ProjectedPeak(f) ==
    LET d == DesignTotal(f)
    IN  IF d = NaN THEN NaN ELSE MulDiv(d, 5000, 8760 * f["lf"])

Aggregate ==
    /\ pc = "aggregate"
    /\ UNCHANGED capex
    /\ \E health \in FacilityValues, edu \in FacilityValues :
          /\ opt' = Col("num_health_facilities", health)
                    @@ Col("num_education_facilities", edu)
          /\ LET g1 == Put(gdf, "dem_res", DemRes(gdf))
                 g2 == Put(g1, "dem_agri", estimate_agri_loads(g1))
             IN  IF AgriRaises(g1)
                 THEN Raise("AttributeError") /\ gdf' = g1
                 ELSE IF health = Absent \/ edu = Absent
                 THEN Raise("AttributeError") /\ gdf' = g2
                 ELSE LET g3 == Put(g2, "dem_pub", DemPub(opt'))
                          g4 == Put(g3, "projected_demand", Projected(TotalYr0(g3)))
                      IN  /\ gdf' = Put(g4, "projected_peak", ProjectedPeak(g4))
                          /\ pc' = "grid"
                          /\ UNCHANGED err

(***************************************************************************)
(* lcoe.py: run_lcoe_model, 1. Voltage and distance logic, 2. Grid LCOE    *)
(***************************************************************************)
\* SUBSTATION_COST / MV_COST_KM, in m
penalty_km == (SUBSTATION_COST * 1000) \div MV_COST_KM

\* np.minimum(d_sub, d_lines + penalty_km), in m
DistGrid(d_sub, d_lines) ==
    Min(fillna(d_sub, 999) * 1000, fillna(d_lines, 999) * 1000 + penalty_km)

\* gdf["projected_peak"] * 0.6
Peak(f) == IF f["projected_peak"] = NaN THEN NaN ELSE (f["projected_peak"] * 6) \div 10

\* np.where(main_road_access == 0, 1.3, 1.0), in tenths
TerrainFactor(access) == IF access = 0 THEN 13 ELSE 10

CapexGrid(f, dist_grid, terrain_factor) ==
    IF Peak(f) = NaN THEN NaN
    ELSE (MulDiv(dist_grid, MV_COST_KM, 1000) * terrain_factor) \div 10
         + (f["households"] * 5 * LV_COST_KM) \div 100
         + CeilDiv(Peak(f), 45000) * TRANSFORMER_COST
         + f["households"] * CONN_GRID

\* annual cost in USD over energy in 1/20 kWh, in 1/1000 USD per kWh
Lcoe(annual, energy) ==
    IF annual = NaN THEN NaN ELSE FDiv(annual * EnergyScale, energy, 3)

LcoeGrid(f, capex_grid) ==
    IF capex_grid = NaN \/ f["projected_demand"] = NaN THEN NaN
    ELSE LET ann_grid_cap == MulMicro(capex_grid, crf40)
             ann_grid_om == (capex_grid * 2) \div 100
             ann_grid_energy == MulDiv(f["projected_demand"], GRID_PRICE,
                                       (100 - GRID_LOSS) * EnergyScale)
         IN  Lcoe(ann_grid_cap + ann_grid_om + ann_grid_energy, f["projected_demand"])

GridLcoe ==
    /\ pc = "grid"
    /\ opt' = NoColumns
    /\ \E d_sub \in SubstationValues, d_lines \in LineValues, access \in AccessValues :
          IF d_sub = Absent \/ d_lines = Absent
          THEN Raise("AttributeError") /\ UNCHANGED <<gdf, capex>>
          ELSE LET c == CapexGrid(gdf, DistGrid(d_sub, d_lines),
                                  TerrainFactor(IF access = Absent THEN 1 ELSE access))
               IN  /\ capex' = Put(capex, "grid", c)
                   /\ gdf' = Put(gdf, "lcoe_grid", LcoeGrid(gdf, c))
                   /\ pc' = "minigrid"
                   /\ UNCHANGED err

(***************************************************************************)
(* 3. Mini-grid LCOE                                                       *)
(***************************************************************************)
\* present value of a cost paid in year n
Discounted(cost, n) == LongDivQR(cost, PowMicro(Micro + DISCOUNT_RATE, n), 6)[1]

CapexMg(f) ==
    IF f["projected_demand"] = NaN \/ Peak(f) = NaN THEN NaN
    ELSE LET daily_load == MulDiv(f["projected_demand"], 1000 \div EnergyScale, 365)
             pv_kw == MulDiv(daily_load, 120, (CF_SOLAR * 8760 * 85) \div 100)
             batt_kwh == MulDiv(daily_load, 10, 8)
             batt_rep_cost == MulDiv(batt_kwh, BATT_COST, 1000)
             batt_pv == Discounted(batt_rep_cost, 7) + Discounted(batt_rep_cost, 14)
             lv_cost_mg == (f["households"] * LV_COST_KM) \div 10
         IN  MulDiv(pv_kw, PV_COST, 1000)
             + MulDiv(batt_kwh, BATT_COST, 1000)
             + batt_pv
             + MulDiv((Peak(f) * 125) \div 100, INV_COST, 1000)
             + f["households"] * CONN_MG
             + lv_cost_mg

LcoeMg(f, capex_mg) ==
    IF capex_mg = NaN THEN NaN
    ELSE Lcoe(MulMicro(capex_mg, crf20) + (capex_mg * 3) \div 100, f["projected_demand"])

MiniGridLcoe ==
    /\ pc = "minigrid"
    /\ capex' = Put(capex, "mg", CapexMg(gdf))
    /\ gdf' = Put(gdf, "lcoe_mg", LcoeMg(gdf, capex'["mg"]))
    /\ pc' = "shs"
    /\ UNCHANGED <<opt, err>>

(***************************************************************************)
(* 4. SHS LCOE                                                             *)
(***************************************************************************)
\* tier.map(SHS_COST) * hh
CapexShs(f) ==
    IF f["tier"] \in DOMAIN SHS_COST THEN SHS_COST[f["tier"]] * f["households"] ELSE NaN

\* np.minimum(projected_demand / hh, cap_limit) * hh
EnergyDelivered(f) ==
    LET hh == f["households"]
        demand == f["projected_demand"]
    IN  IF f["tier"] \notin DOMAIN SHS_CAP \/ demand = NaN THEN NaN
        ELSE IF hh = 0 THEN (IF demand = 0 THEN NaN ELSE 0)
        ELSE Min(demand, SHS_CAP[f["tier"]] * EnergyScale * hh)

LcoeShs(f, capex_shs) ==
    IF capex_shs = NaN THEN NaN
    ELSE Lcoe(MulMicro(capex_shs, crf5) + (capex_shs * 5) \div 100, EnergyDelivered(f))

ShsLcoe ==
    /\ pc = "shs"
    /\ capex' = Put(capex, "shs", CapexShs(gdf))
    /\ gdf' = Put(gdf, "lcoe_shs", LcoeShs(gdf, capex'["shs"]))
    /\ pc' = "gate"
    /\ UNCHANGED <<opt, err>>

Sentinel == 999900

HasProductive(f) ==
    Gt(f["dem_comm"], 0) \/ Gt(f["dem_agri"], 0) \/ Gt(f["dem_pub"], 0)

\* the gate without the public load
MaskInvalid_NoPublic(f) ==
    Gt(f["tier"], MAX_TIER_SHS) \/ Gt(f["dem_comm"], 0) \/ Gt(f["dem_agri"], 0)

MaskInvalid(f) == Gt(f["tier"], MAX_TIER_SHS) \/ HasProductive(f)

ShsGate ==
    /\ pc = "gate"
    /\ gdf' = IF MaskInvalid(gdf) THEN Put(gdf, "lcoe_shs", Sentinel) ELSE gdf
    /\ pc' = "select"
    /\ UNCHANGED <<opt, capex, err>>

(***************************************************************************)
(* 5. Optimisation                                                         *)
(***************************************************************************)
cols == <<"lcoe_grid", "lcoe_mg", "lcoe_shs">>

tech_labels == [lcoe_grid |-> "Grid", lcoe_mg |-> "MiniGrid", lcoe_shs |-> "SHS"]

Valid(f) == {i \in 1..Len(cols) : f[cols[i]] # NaN}

\* gdf[cols].min(axis=1): missing values are skipped
RowMin(f) ==
    IF Valid(f) = {} THEN NaN
    ELSE LET i == CHOOSE i \in Valid(f) : \A j \in Valid(f) : f[cols[i]] <= f[cols[j]]
         IN  f[cols[i]]

\* gdf[cols].idxmin(axis=1): the first column that holds the minimum
IdxMin(f) ==
    LET i == CHOOSE i \in Valid(f) :
                 /\ f[cols[i]] = RowMin(f)
                 /\ \A j \in Valid(f) : f[cols[j]] = RowMin(f) => i <= j
    IN  cols[i]

\* np.select([optimal_tech == "Grid", optimal_tech == "MiniGrid"],
\*           [capex_grid, capex_mg], default=capex_shs)
Investment(optimal_tech, c) ==
    IF optimal_tech = "Grid" THEN c["grid"]
    ELSE IF optimal_tech = "MiniGrid" THEN c["mg"]
    ELSE c["shs"]

Select ==
    /\ pc = "select"
    /\ UNCHANGED <<opt, capex>>
    /\ IF Valid(gdf) = {}
       THEN \* idxmin of a row of missing values: NaN or ValueError, by pandas version
            \E raises \in BOOLEAN :
                IF raises
                THEN Raise("ValueError") /\ UNCHANGED gdf
                ELSE /\ gdf' = Put(Put(Put(gdf, "min_lcoe", NaN), "optimal_tech", "NaN"),
                                   "investment", Investment("NaN", capex))
                     /\ pc' = "done"
                     /\ UNCHANGED err
       ELSE LET optimal_tech == tech_labels[IdxMin(gdf)]
            IN  /\ gdf' = Put(Put(Put(gdf, "min_lcoe", RowMin(gdf)),
                                  "optimal_tech", optimal_tech),
                              "investment", Investment(optimal_tech, capex))
                /\ pc' = "done"
                /\ UNCHANGED err

Next ==
    \/ Classify \/ TierFromWealth \/ NightlightCorrection \/ RemoteCap
    \/ Commercial \/ Aggregate
    \/ GridLcoe \/ MiniGridLcoe \/ ShsLcoe \/ ShsGate \/ Select

Spec == Init /\ [][Next]_vars

(***************************************************************************)
(* Properties                                                              *)
(***************************************************************************)
Leq(a, b) == a # NaN /\ b # NaN /\ a <= b
Finite(x) == x # NaN /\ x # Inf
Positive(x) == x # NaN /\ x > 0
Gated(f) ==
    f["tier"] > 3 \/ Positive(f["dem_comm"]) \/ Positive(f["dem_agri"])
    \/ Positive(f["dem_pub"])

\* C1: after run_lcoe_model, a settlement with tier > 3 or with a nonzero
\* commercial, agricultural or public demand never has optimal_tech = "SHS":
\* the 999.9 sentinel is never the least of lcoe_grid, lcoe_mg and lcoe_shs.
C1_SentinelNeverOptimal ==
    (pc = "done" /\ Gated(gdf)) =>
        /\ gdf["optimal_tech"] # "SHS"
        /\ \/ Leq(gdf["lcoe_grid"], gdf["lcoe_shs"])
           \/ Leq(gdf["lcoe_mg"], gdf["lcoe_shs"])

\* the kit's value as section 4 computes it, before the gate
KitLcoe(f) ==
    LET kit == SHS_COST[f["tier"]] * f["households"]
        annual == MulMicro(kit, crf5) + (kit * 5) \div 100
        delivered == IF f["projected_demand"] = NaN THEN NaN
                     ELSE Min(f["projected_demand"],
                              SHS_CAP[f["tier"]] * EnergyScale * f["households"])
    IN  FDiv(annual * EnergyScale, delivered, 3)

\* C2: once the gate has run, lcoe_shs is exactly 999.9 for every settlement
\* with dem_comm > 0 or dem_agri > 0 or dem_pub > 0 or tier > MAX_TIER_SHS,
\* whatever value was computed, and for every other settlement it is the
\* computed value: annualized kit cost over min(projected_demand / households,
\* tier cap) x households.
C2_HardGate ==
    pc \in {"select", "done"} =>
        gdf["lcoe_shs"] = IF Gated(gdf) THEN 999900 ELSE KitLcoe(gdf)

\* C2 witness: a gated settlement whose computed value was below the sentinel.
C2_Witness ==
    /\ pc = "done"
    /\ Gated(gdf)
    /\ gdf["projected_demand"] # NaN
    /\ KitLcoe(gdf) < 999900
    /\ gdf["lcoe_shs"] = 999900

\* C3: min_lcoe is the least of the three LCOEs, optimal_tech is one of "Grid",
\* "MiniGrid", "SHS" and names the first technology, in that order, whose LCOE
\* is the minimum, and investment is the capital cost of that technology.
C3_ConsistentArgmin ==
    pc = "done" =>
        LET g == gdf["lcoe_grid"]
            m == gdf["lcoe_mg"]
            k == gdf["lcoe_shs"]
            best == gdf["min_lcoe"]
            tech == gdf["optimal_tech"]
        IN  /\ best \in {g, m, k}
            /\ Leq(best, g) /\ Leq(best, m) /\ Leq(best, k)
            /\ tech \in {"Grid", "MiniGrid", "SHS"}
            /\ tech = "Grid" <=> g = best
            /\ tech = "MiniGrid" <=> (g # best /\ m = best)
            /\ tech = "SHS" <=> (g # best /\ m # best /\ k = best)
            /\ tech = "Grid" => gdf["investment"] = capex["grid"]
            /\ tech = "MiniGrid" => gdf["investment"] = capex["mg"]
            /\ tech = "SHS" => gdf["investment"] = capex["shs"]

\* C4: after run_demand_model the four components as stored are each >= 0 and
\* projected_demand is their sum (dem_comm with its cold-chain part) times the
\* growth factor.
C4_SumDecomposition ==
    Has(gdf, "projected_demand") =>
        /\ Leq(0, gdf["dem_res"]) /\ Leq(0, gdf["dem_comm"])
        /\ Leq(0, gdf["dem_agri"]) /\ Leq(0, gdf["dem_pub"])
        /\ gdf["projected_demand"] # NaN
        /\ gdf["projected_demand"] =
               MulMicro(gdf["dem_res"] + gdf["dem_comm"] + gdf["dem_agri"]
                        + gdf["dem_pub"], growth)

\* the tier of a settlement with wealth proxy rwi and the nightlight and road
\* columns of the row at hand
TwinTier(rwi, o) == RemoteTier(NightlightTier(TierFromRwi(rwi), o), o)

C5_TierRange ==
    /\ Has(gdf, "tier") => gdf["tier"] \in {1, 2, 3}
    /\ (pc = "commercial" /\ Has(opt, "mean_rwi") /\ opt["mean_rwi"] # NaN) =>
          \A rwi \in RwiValues \ {Absent, NaN} :
              /\ rwi >= opt["mean_rwi"] => TwinTier(rwi, opt) >= gdf["tier"]
              /\ rwi <= opt["mean_rwi"] => TwinTier(rwi, opt) <= gdf["tier"]

C5_Overrides ==
    /\ pc = "nightlight" =>
          /\ gdf'["tier"] >= gdf["tier"]
          /\ gdf'["tier"] # gdf["tier"] => (gdf["tier"] = 1 /\ gdf'["tier"] = 2)
    /\ pc = "remote" => gdf'["tier"] <= gdf["tier"]

\* C5: tier is always 1, 2 or 3; with the same nightlight and road columns a
\* higher wealth proxy never gives a lower tier; the nightlight correction only
\* turns a tier 1 into a tier 2; the remoteness cap never raises a tier.
C5_TierMonotone == [] C5_TierRange /\ [][C5_Overrides]_vars

\* C5 witness: the nightlight correction has promoted a tier 1 settlement.
C5_Witness ==
    /\ pc = "remote"
    /\ TierFromRwi(Get(opt, "mean_rwi", 0)) = 1
    /\ Has(opt, "has_nightlight") /\ opt["has_nightlight"] = 1
    /\ gdf["tier"] = 2

ValidMandatory(f) ==
    /\ Has(f, "population") /\ IsNum(f["population"])
    /\ Has(f, "geometry") /\ f["geometry"] # NaN

\* C6: with the mandatory columns valid, run_demand_model followed by
\* run_lcoe_model completes without raising whatever optional column is
\* absent or holds a missing value, and a default stands in for it: the
\* finished row holds no missing demand or cost.
C6_OptionalDefaults ==
    ValidMandatory(gdf) =>
        /\ pc # "raised"
        /\ pc = "done" =>
              /\ gdf["dem_comm"] # NaN /\ gdf["dem_pub"] # NaN
              /\ gdf["projected_demand"] # NaN
              /\ gdf["lcoe_grid"] # NaN /\ gdf["lcoe_mg"] # NaN

Malformed(f) ==
    \/ ~Has(f, "population")
    \/ ~IsNum(f["population"])
    \/ ~Has(f, "geometry")
    \/ f["geometry"] = NaN

\* C7: a table with a missing or non-numeric population, or without geometry,
\* is rejected before any computation: no derived column is ever written.
C7_RejectedBeforeComputation ==
    Malformed(gdf) => DOMAIN gdf \cap DerivedColumns = {}

\* C8: for a population >= 0, households >= 1, projected_demand > 0, the
\* energy the kits deliver is > 0 and the three LCOEs are finite.
C8_NoZeroDivisor ==
    (Has(gdf, "population") /\ IsNum(gdf["population"])) =>
        /\ Has(gdf, "households") => gdf["households"] >= 1
        /\ Has(gdf, "projected_demand") => Positive(gdf["projected_demand"])
        /\ Has(gdf, "lcoe_grid") => Finite(gdf["lcoe_grid"])
        /\ Has(gdf, "lcoe_mg") => Finite(gdf["lcoe_mg"])
        /\ Has(gdf, "lcoe_shs") =>
              /\ Finite(gdf["lcoe_shs"])
              /\ Positive(gdf["projected_demand"])
              /\ SHS_CAP[gdf["tier"]] * gdf["households"] > 0

Units(pop, per) == IF pop \div per >= 1 THEN pop \div per ELSE 1

\* the three rules, each on its own condition
AgriExpected(f) ==
    LET pop == f["population"]
        rural == ~f["is_urban"]
        near == Has(f, "dist_lake_river_km") /\ f["dist_lake_river_km"] < 3
        north == f["geometry"] > 80
    IN  (IF rural /\ pop > 500 THEN Units(pop, 1500) * 4500 ELSE 0)
        + (IF near /\ pop > 300 THEN Units(pop, 800) * 3500 ELSE 0)
        + (IF north /\ rural /\ pop > 400 THEN Units(pop, 2000) * 6000 ELSE 0)

ScenarioTier ==
    (/\ pc = "commercial"
     /\ Has(opt, "mean_rwi") /\ opt["mean_rwi"] = 0 - 5
     /\ Get(opt, "has_nightlight", 0) = 0
     /\ Has(opt, "dist_main_road_km") /\ opt["dist_main_road_km"] = 25)
    => gdf["tier"] = 1

ScenarioSettlement(f) ==
    /\ f["population"] = 1000
    /\ f["tier"] = 1
    /\ ~f["is_urban"]
    /\ ~(Has(f, "dist_lake_river_km") /\ f["dist_lake_river_km"] < 3)

\* C9 as stated: dem_agri is the sum of the three rules, and the rural
\* settlement of 1000 people with no river within 3 km gets dem_agri = 4500
\* and, with wealth proxy -0.5, no nightlight and road distance 25 km, tier 1.
C9_AsStated ==
    /\ Has(gdf, "dem_agri") => gdf["dem_agri"] = AgriExpected(gdf) * EnergyScale
    /\ ScenarioTier
    /\ (pc = "grid" /\ ScenarioSettlement(gdf)) =>
           gdf["dem_agri"] = 4500 * EnergyScale

\* C9 amended: the same, the scenario's settlement lying at a latitude of at
\* most 8.0 (north of it the cashew dryer fires too and dem_agri = 10500).
C9_AgriRules ==
    /\ Has(gdf, "dem_agri") => gdf["dem_agri"] = AgriExpected(gdf) * EnergyScale
    /\ ScenarioTier
    /\ (pc = "grid" /\ ScenarioSettlement(gdf)) =>
           gdf["dem_agri"] = (IF gdf["geometry"] > 80 THEN 10500 ELSE 4500)
                             * EnergyScale

\* C9 witness: a settlement where the three rules fire together.
C9_Witness ==
    /\ Has(gdf, "dem_agri")
    /\ gdf["population"] = 1000 /\ ~gdf["is_urban"]
    /\ Has(gdf, "dist_lake_river_km") /\ gdf["dist_lake_river_km"] = 1
    /\ gdf["geometry"] = 90
    /\ gdf["dem_agri"] = (4500 + 3500 + 6000) * EnergyScale

BuildingsCounted(f) ==
    ~Has(f, "num_buildings") \/ (f["num_buildings"] # NaN /\ f["num_buildings"] >= 1)

\* C10: dem_comm >= 600 when num_buildings is absent or >= 1, so that
\* lcoe_shs = 999.9 and optimal_tech is not "SHS" there; "SHS" is chosen only
\* for a settlement with num_buildings present and 0 and no cold-chain,
\* agricultural or public load.
C10_CommercialAlwaysPositive ==
    /\ (Has(gdf, "dem_comm") /\ BuildingsCounted(gdf)) =>
           Leq(600 * EnergyScale, gdf["dem_comm"])
    /\ (pc = "done" /\ BuildingsCounted(gdf)) =>
           (gdf["lcoe_shs"] = 999900 /\ gdf["optimal_tech"] # "SHS")
    /\ (pc = "done" /\ gdf["optimal_tech"] = "SHS") =>
           /\ Has(gdf, "num_buildings") /\ gdf["num_buildings"] = 0
           /\ gdf["dem_comm"] = 0 /\ gdf["dem_agri"] = 0 /\ gdf["dem_pub"] = 0

(***************************************************************************)
(* What holds of the rows whose num_buildings is absent or a number        *)
(***************************************************************************)
BuildingsKnown == Get(gdf, "num_buildings", 0) # NaN

SelectionWithBuildings ==
    BuildingsKnown =>
        /\ C1_SentinelNeverOptimal
        /\ C3_ConsistentArgmin
        /\ C4_SumDecomposition
        /\ C8_NoZeroDivisor
        /\ C10_CommercialAlwaysPositive

====
